---- MODULE Spec2Model ----
(***************************************************************************)
(* Orders app of the Kastoma backend: order creation with coupons, the     *)
(* order status life cycle and the order endpoints of OrderViewSet.        *)
(*                                                                         *)
(* Decimals are integers counted in units of 10^-6 (Micro is 1.00, Cent is *)
(* 0.01), which is exact for every product of two 2-place decimals divided *)
(* by 100.                                                                 *)
(* Timestamps are whole seconds of one wall clock; a NULL column is None.  *)
(***************************************************************************)
EXTENDS Integers, Sequences, FiniteSets, TLC

\* ------------------------------------------------------------------ bounds
MaxClock == 1
\* SpecCart: the largest quantity a cart line is taken to
MaxCartQuantity == 4
\* Spec: the orders a run creates and the workers that serve its requests
MaxOrders == 1
NumWorkers == 1
\* SpecSeq and SpecRace: the orders a run creates and the concurrent workers
RaceOrders == 2
RaceWorkers == 2

\* --------------------------------------------------------------- constants
\* NULL in a number or timestamp column, and NULL in a text column
None == 0 - 1
Null == "NULL"
Micro == 1000000
Cent == 10000

Users == {"alice", "bob", "admin"}
Customers == {"alice"}

is_staff(u) == u = "admin"

ORDER_STATUSES ==
  {"pending", "confirmed", "processing", "shipped", "delivered",
   "cancelled", "refunded"}

\* products.Product rows: price and stock per product id; "ghost" is an id of
\* no row.
ProductIds == {"mug", "pen"}
ProductPrice(p) == IF p = "pen" THEN 3335 * Cent ELSE 10 * Micro
ProductStock(p) == 3

\* item lists a request may carry
ItemChoices ==
  { << >>,
    << [product_id |-> "mug", quantity |-> 2] >>,
    << [product_id |-> "mug", quantity |-> 0] >>,
    << [product_id |-> "ghost", quantity |-> 1] >> }

\* coupon codes a request may carry ("" is a blank code)
CodeChoices == {"", "SAVE10", "NOPE"}

\* Python truthiness of a nullable number: None and 0 are both falsy.
Truthy(x) == x # None /\ x # 0

VARIABLES clock, orders, orderItems, coupons, usages, nextId, pc, local, response,
          cartItems, categories

vars == <<clock, orders, orderItems, coupons, usages, nextId, pc, local, response,
          cartItems, categories>>

\* ------------------------------------------------------------ Coupon model

\* The coupon rows the database starts with: one percentage coupon, not valid
\* before second 1, with one of the given usage limits.
InitialCoupons(limits) ==
  { [c \in {"SAVE10"} |->
       [discount_type |-> "percentage",
        discount_value |-> 10 * Micro,
        minimum_order_amount |-> None,
        maximum_discount_amount |-> None,
        usage_limit |-> lim,
        usage_count |-> 0,
        is_active |-> TRUE,
        valid_from |-> vf,
        valid_until |-> None]] : lim \in limits, vf \in {1} }

is_valid(c, now) ==
  IF ~c.is_active THEN FALSE
  ELSE IF c.valid_from > now THEN FALSE
  ELSE IF c.valid_until # None /\ c.valid_until < now THEN FALSE
  ELSE IF Truthy(c.usage_limit) /\ c.usage_count >= c.usage_limit THEN FALSE
  ELSE TRUE

Min(a, b) == IF a <= b THEN a ELSE b

\* order_amount * (discount_value / 100) for 2-place decimals: with a and v
\* their counts of cents, a * v / 10^6, which is a * v units of 10^-6.
PercentOf(order_amount, discount_value) ==
  (order_amount \div Cent) * (discount_value \div Cent)

\* calculate_discount without its last line, the cap at the order amount
calculate_discount_uncapped(c, order_amount, now) ==
  IF ~is_valid(c, now) THEN 0
  ELSE IF Truthy(c.minimum_order_amount)
          /\ order_amount < c.minimum_order_amount THEN 0
  ELSE LET raw == IF c.discount_type = "percentage"
                  THEN PercentOf(order_amount, c.discount_value)
                  ELSE c.discount_value
       IN IF Truthy(c.maximum_discount_amount)
          THEN Min(raw, c.maximum_discount_amount)
          ELSE raw

calculate_discount(c, order_amount, now) ==
  IF ~is_valid(c, now) THEN 0
  ELSE IF Truthy(c.minimum_order_amount)
          /\ order_amount < c.minimum_order_amount THEN 0
  ELSE LET raw == IF c.discount_type = "percentage"
                  THEN PercentOf(order_amount, c.discount_value)
                  ELSE c.discount_value
           capped == IF Truthy(c.maximum_discount_amount)
                     THEN Min(raw, c.maximum_discount_amount)
                     ELSE raw
       IN Min(capped, order_amount)

\* DecimalField(decimal_places=2) column: the value written is quantized to
\* whole cents, ties to the even cent.
ToColumn(x) ==
  LET q == x \div Cent
      r == x % Cent
  IN IF 2 * r > Cent \/ (2 * r = Cent /\ q % 2 = 1)
     THEN (q + 1) * Cent
     ELSE q * Cent

\* ------------------------------------------------------------ orders.utils

\* str.lower on the shipping method names that are asked about
Lower(name) ==
  CASE name = "Standard" -> "standard"
    [] name = "EXPRESS" -> "express"
    [] OTHER -> name

\* get_shipping_cost with a threshold that must be exceeded
get_shipping_cost_above(subtotal, shipping_method) ==
  LET FREE_SHIPPING_THRESHOLD == 100 * Micro
      method == Lower(shipping_method)
  IN IF subtotal > FREE_SHIPPING_THRESHOLD THEN 0
     ELSE CASE method = "standard" -> 599 * Cent
            [] method = "express" -> 1299 * Cent
            [] method = "overnight" -> 2499 * Cent
            [] method = "international" -> 1599 * Cent
            [] OTHER -> 599 * Cent

get_shipping_cost(subtotal, shipping_method) ==
  LET FREE_SHIPPING_THRESHOLD == 100 * Micro
      method == Lower(shipping_method)
  IN IF subtotal >= FREE_SHIPPING_THRESHOLD THEN 0
     ELSE CASE method = "standard" -> 599 * Cent
            [] method = "express" -> 1299 * Cent
            [] method = "overnight" -> 2499 * Cent
            [] method = "international" -> 1599 * Cent
            [] OTHER -> 599 * Cent

\* Decimal.quantize(Decimal('0.01'), rounding=ROUND_HALF_UP) of an amount >= 0
QuantizeHalfUp(x) ==
  LET q == x \div Cent
      r == x % Cent
  IN IF 2 * r >= Cent THEN (q + 1) * Cent ELSE q * Cent

\* calculate_tax that rounds ties to the even cent
calculate_tax_half_even(amount, tax_rate) == ToColumn(PercentOf(amount, tax_rate))

\* amount * (tax_rate / Decimal('100')) is exact for 2-place decimals
calculate_tax(amount, tax_rate) == QuantizeHalfUp(PercentOf(amount, tax_rate))

\* ------------------------------------------------------------- Order model

NewOrder(u, number) ==
  [user |-> u,
   order_number |-> number,
   status |-> "pending",
   subtotal |-> 0,
   shipping_cost |-> 0,
   tax_amount |-> 0,
   discount_amount |-> 0,
   total_amount |-> 0,
   tracking_number |-> Null,
   internal_notes |-> Null,
   confirmed_at |-> None,
   shipped_at |-> None,
   delivered_at |-> None]

\* Order.save without an order_number: "KAS-" and the last 8 digits of the
\* clock's seconds.
GeneratedOrderNumber(now) == now % 100000000

\* Model.save of an Order object: the row is written with every field of the
\* object, amounts quantized by their columns.
OrderRow(obj) ==
  [obj EXCEPT !.subtotal = ToColumn(obj.subtotal),
              !.shipping_cost = ToColumn(obj.shipping_cost),
              !.tax_amount = ToColumn(obj.tax_amount),
              !.discount_amount = ToColumn(obj.discount_amount),
              !.total_amount = ToColumn(obj.total_amount)]

\* can_be_cancelled following the transition table, which lets a processing
\* order be cancelled
can_be_cancelled_by_table(o) == o.status \in {"pending", "confirmed", "processing"}

can_be_cancelled(o) == o.status \in {"pending", "confirmed"}

\* a transition table in which a delivered order may go back to shipped
valid_transitions_with_return(current_status) ==
  CASE current_status = "pending" -> {"confirmed", "cancelled"}
    [] current_status = "confirmed" -> {"processing", "cancelled"}
    [] current_status = "processing" -> {"shipped", "cancelled"}
    [] current_status = "shipped" -> {"delivered"}
    [] current_status = "delivered" -> {"refunded", "shipped"}
    [] OTHER -> {}

valid_transitions(current_status) ==
  CASE current_status = "pending" -> {"confirmed", "cancelled"}
    [] current_status = "confirmed" -> {"processing", "cancelled"}
    [] current_status = "processing" -> {"shipped", "cancelled"}
    [] current_status = "shipped" -> {"delivered"}
    [] current_status = "delivered" -> {"refunded"}
    [] current_status = "cancelled" -> {}
    [] current_status = "refunded" -> {}
    [] OTHER -> {}

\* validate_status that also lets a status be set to itself
validate_status_or_same(instance, value) ==
  value \in valid_transitions(instance.status) \cup {instance.status}

validate_status(instance, value) == value \in valid_transitions(instance.status)

\* sum(item.total_price for item in self.items.all())
RECURSIVE SumTotalPrice(_)
SumTotalPrice(rows) ==
  IF rows = {} THEN 0
  ELSE LET r == CHOOSE x \in rows : TRUE
       IN r.total_price + SumTotalPrice(rows \ {r})

\* Order.calculate_totals on an order object whose items are the given rows
calculate_totals(order, rows) ==
  LET subtotal == SumTotalPrice(rows)
  IN [order EXCEPT !.subtotal = subtotal,
                   !.total_amount = subtotal + order.shipping_cost + order.tax_amount
                                      - order.discount_amount]

\* ------------------------------------------------------------------- state
\* clock      the wall clock, in seconds
\* orders     the Order table: a function from the ids of the stored orders
\* orderItems the OrderItem table
\* coupons    the Coupon table, by code
\* usages     the CouponUsage table
\* nextId     the number of order ids handed out so far
\* pc, local  each request worker's position in OrderCreateSerializer.create
\*            and the objects it holds in memory
\* response   the HTTP status and (for validate_coupon) the body the last step
\*            answered with, NoResponse when it answered nothing
\* cartItems  the CartItem table; the cart of a row is named by its user

NoCoupon ==
  [discount_type |-> "fixed_amount", discount_value |-> 0,
   minimum_order_amount |-> None, maximum_discount_amount |-> None,
   usage_limit |-> None, usage_count |-> 0, is_active |-> FALSE,
   valid_from |-> 0, valid_until |-> None]

IdleLocal ==
  [order |-> None, obj |-> NewOrder("-", None), code |-> "", coupon |-> NoCoupon,
   discount |-> 0, cart |-> ""]

Answer(code) == [code |-> code, body |-> ""]

NoResponse == Answer(0)

InitWith(workers, limits) ==
  /\ clock = 0
  /\ orders = << >>
  /\ orderItems = {}
  /\ coupons \in InitialCoupons(limits)
  /\ usages = {}
  /\ nextId = 0
  /\ pc = [w \in workers |-> "idle"]
  /\ local = [w \in workers |-> IdleLocal]
  /\ response = NoResponse
  /\ cartItems = {}
  /\ categories = << >>

Tick ==
  /\ clock < MaxClock
  /\ clock' = clock + 1
  /\ response' = NoResponse
  /\ UNCHANGED <<orders, orderItems, coupons, usages, nextId, pc, local, cartItems,
               categories>>

\* ---------------------------------------------- OrderCreateSerializer.create

\* validation of the items that only looks at the quantities
ItemsValidQuantities(items) ==
  \A i \in 1 .. Len(items) : items[i].quantity > 0

\* validate_items and OrderItemSerializer.validate_quantity
ItemsValid(items) ==
  /\ Len(items) > 0
  /\ \A i \in 1 .. Len(items) : items[i].quantity > 0

\* The item loop of create from item i on: the OrderItem rows it inserts and
\* the subtotal it reaches; failed when Product.objects.get raised.
RECURSIVE ItemLoop(_, _, _, _, _)
ItemLoop(items, i, order, rows, subtotal) ==
  IF i > Len(items) THEN [failed |-> FALSE, rows |-> rows, subtotal |-> subtotal]
  ELSE IF items[i].product_id \notin ProductIds
       THEN [failed |-> TRUE, rows |-> rows, subtotal |-> subtotal]
       ELSE LET unit_price == ProductPrice(items[i].product_id)
                total_price == unit_price * items[i].quantity
                row == [order |-> order, line |-> i,
                        product |-> items[i].product_id,
                        quantity |-> items[i].quantity,
                        unit_price |-> ToColumn(unit_price),
                        total_price |-> ToColumn(total_price)]
            IN ItemLoop(items, i + 1, order, rows \cup {row}, subtotal + total_price)

\* OrderCreateSerializer validation and create up to the end of the item
\* loop: the insert of the Order row (Order.save gives it its number) and the
\* OrderItem rows. cart names the cart a checkout will clear, "" for a
\* POST /orders/.
CreateOrder(w, u, items, code, cap, cart) ==
  /\ pc[w] = "idle"
  /\ IF ~ItemsValid(items)
     THEN /\ response' = Answer(400)
          /\ UNCHANGED <<orders, orderItems, nextId, pc, local>>
     ELSE IF \E o \in DOMAIN orders :
                orders[o].order_number = GeneratedOrderNumber(clock)
     THEN /\ response' = Answer(500)
          /\ UNCHANGED <<orders, orderItems, nextId, pc, local>>
     ELSE /\ nextId < cap
          /\ LET id == nextId + 1
                 obj == NewOrder(u, GeneratedOrderNumber(clock))
                 loop == ItemLoop(items, 1, id, {}, 0)
             IN /\ nextId' = id
                /\ orders' = (id :> OrderRow(obj)) @@ orders
                /\ orderItems' = orderItems \cup loop.rows
                /\ IF loop.failed
                   THEN /\ response' = Answer(500)
                        /\ UNCHANGED <<pc, local>>
                   ELSE /\ response' = NoResponse
                        /\ pc' = [pc EXCEPT ![w] = "coupon"]
                        /\ local' = [local EXCEPT ![w] =
                             [order |-> id,
                              obj |-> [obj EXCEPT !.subtotal = loop.subtotal],
                              code |-> code, coupon |-> NoCoupon, discount |-> 0,
                              cart |-> cart]]
  /\ UNCHANGED <<clock, categories, coupons, usages, cartItems>>

\* POST /orders/
CreateBegin(w, u, items, code, cap) == CreateOrder(w, u, items, code, cap, "")

\* The coupon step of create without its `except Coupon.DoesNotExist`: a code
\* of no coupon fails the request.
CreateCouponRaising(w) ==
  /\ pc[w] = "coupon"
  /\ LET code == local[w].code
         discount == IF code \in DOMAIN coupons
                     THEN calculate_discount(coupons[code], local[w].obj.subtotal, clock)
                     ELSE 0
     IN IF code # "" /\ code \notin DOMAIN coupons
        THEN /\ pc' = [pc EXCEPT ![w] = "idle"]
             /\ local' = [local EXCEPT ![w] = IdleLocal]
             /\ response' = Answer(500)
        ELSE IF discount > 0
        THEN /\ local' = [local EXCEPT ![w].coupon = coupons[code],
                                       ![w].discount = discount,
                                       ![w].obj.discount_amount = discount]
             /\ pc' = [pc EXCEPT ![w] = "coupon_save"]
             /\ response' = NoResponse
        ELSE /\ pc' = [pc EXCEPT ![w] = "final"]
             /\ response' = NoResponse
             /\ UNCHANGED local
  /\ UNCHANGED <<clock, categories, orders, orderItems, coupons, usages, nextId, cartItems>>

\* Coupon.objects.get(code=coupon_code) and coupon.calculate_discount(subtotal)
CreateCoupon(w) ==
  /\ pc[w] = "coupon"
  /\ LET code == local[w].code
         found == code # "" /\ code \in DOMAIN coupons
         discount == IF found
                     THEN calculate_discount(coupons[code], local[w].obj.subtotal, clock)
                     ELSE 0
     IN IF discount > 0
        THEN /\ local' = [local EXCEPT ![w].coupon = coupons[code],
                                       ![w].discount = discount,
                                       ![w].obj.discount_amount = discount]
             /\ pc' = [pc EXCEPT ![w] = "coupon_save"]
        ELSE /\ pc' = [pc EXCEPT ![w] = "final"]
             /\ UNCHANGED local
  /\ response' = NoResponse
  /\ UNCHANGED <<clock, categories, orders, orderItems, coupons, usages, nextId, cartItems>>

\* coupon.usage_count += 1; coupon.save(): the row is written from the object
\* read in CreateCoupon.
CreateCouponSave(w) ==
  /\ pc[w] = "coupon_save"
  /\ LET saved == [local[w].coupon EXCEPT !.usage_count = @ + 1]
     IN /\ coupons' = [coupons EXCEPT ![local[w].code] = saved]
        /\ local' = [local EXCEPT ![w].coupon = saved]
  /\ pc' = [pc EXCEPT ![w] = "usage"]
  /\ response' = NoResponse
  /\ UNCHANGED <<clock, categories, orders, orderItems, usages, nextId, cartItems>>

\* CouponUsage.objects.create(...): fails on its foreign key when the order row
\* is gone.
CreateUsage(w) ==
  /\ pc[w] = "usage"
  /\ IF local[w].order \in DOMAIN orders
     THEN /\ usages' = usages \cup
               {[coupon |-> local[w].code, order |-> local[w].order,
                 user |-> local[w].obj.user,
                 discount_amount |-> ToColumn(local[w].discount)]}
          /\ pc' = [pc EXCEPT ![w] = "final"]
          /\ response' = NoResponse
          /\ UNCHANGED local
     ELSE /\ pc' = [pc EXCEPT ![w] = "idle"]
          /\ local' = [local EXCEPT ![w] = IdleLocal]
          /\ response' = Answer(500)
          /\ UNCHANGED usages
  /\ UNCHANGED <<clock, categories, orders, orderItems, coupons, nextId, cartItems>>

\* order.total_amount = ...; order.save(): every field of the object is written
\* (an UPDATE, or an INSERT when the row is gone).
CreateFinal(w) ==
  /\ pc[w] = "final"
  /\ LET o == local[w].obj
         obj == [o EXCEPT !.total_amount =
                   o.subtotal + o.shipping_cost + o.tax_amount - o.discount_amount]
     IN orders' = (local[w].order :> OrderRow(obj)) @@ orders
  /\ IF local[w].cart = ""
     THEN /\ pc' = [pc EXCEPT ![w] = "idle"]
          /\ local' = [local EXCEPT ![w] = IdleLocal]
          /\ response' = Answer(201)
     ELSE /\ pc' = [pc EXCEPT ![w] = "clear"]
          /\ response' = NoResponse
          /\ UNCHANGED local
  /\ UNCHANGED <<clock, categories, orderItems, coupons, usages, nextId, cartItems>>

\* A request other than an order creation is served in one step, by a worker
\* that is not in the middle of a creation.
WorkerFree == \E w \in DOMAIN pc : pc[w] = "idle"

\* ---------------------------------------------------------------- CartViewSet

\* cart.items.all() of the cart of user u
CartOf(u) == {r \in cartItems : r.cart = u}

\* The 'items' list checkout builds from the lines of a cart, in the order of
\* their ids.
RECURSIVE CartLines(_)
CartLines(rows) ==
  IF rows = {} THEN << >>
  ELSE LET first == CHOOSE r \in rows : \A x \in rows : r.id <= x.id
       IN << [product_id |-> first.product, quantity |-> first.quantity] >>
            \o CartLines(rows \ {first})

\* POST /cart/add_item/: CartItemSerializer's validation, then get_or_create
\* of the line, whose quantity grows by the quantity added when it exists.
AddItem(u, product_id, quantity) ==
  /\ WorkerFree
  /\ IF quantity <= 0 \/ product_id \notin ProductIds \/ quantity > ProductStock(product_id)
     THEN /\ response' = Answer(400)
          /\ UNCHANGED cartItems
     ELSE /\ response' = Answer(200)
          /\ IF \E r \in CartOf(u) : r.product = product_id
             THEN LET line == CHOOSE r \in CartOf(u) : r.product = product_id
                  IN /\ line.quantity + quantity <= MaxCartQuantity
                     /\ cartItems' = (cartItems \ {line})
                          \cup {[line EXCEPT !.quantity = @ + quantity]}
             ELSE LET ids == {r.id : r \in cartItems}
                      id == IF ids = {} THEN 1
                            ELSE 1 + CHOOSE i \in ids : \A j \in ids : j <= i
                  IN cartItems' = cartItems \cup
                       {[id |-> id, cart |-> u, product |-> product_id,
                         quantity |-> quantity]}
  /\ UNCHANGED <<clock, categories, orders, orderItems, coupons, usages, nextId, pc, local>>

\* Request bodies of checkout: has_items tells whether the body has a key
\* 'items', items is its value.
NoItemsBody == [has_items |-> FALSE, items |-> << >>]

CheckoutBodies ==
  {NoItemsBody,
   [has_items |-> TRUE, items |-> << [product_id |-> "pen", quantity |-> 1] >>]}

\* order_data of checkout: {'items': the cart's lines, **request.data}, where
\* a key of the body replaces the key written before it.
order_data_items(u, body) ==
  IF body.has_items THEN body.items ELSE CartLines(CartOf(u))

\* POST /cart/checkout/ up to the end of create's item loop: an empty cart is
\* refused, otherwise the order is created from order_data.
Checkout(w, u, body, code, cap) ==
  IF CartOf(u) = {}
  THEN /\ pc[w] = "idle"
       /\ response' = [code |-> 400, body |-> "Cart is empty."]
       /\ UNCHANGED <<clock, categories, orders, orderItems, coupons, usages, nextId, pc, local,
                      cartItems>>
  ELSE CreateOrder(w, u, order_data_items(u, body), code, cap, u)

\* POST /cart/checkout/ with a body that has no key 'items'
CheckoutBegin(w, u, code, cap) == Checkout(w, u, NoItemsBody, code, cap)

\* cart.clear() after order_serializer.save, and the 201 answer of checkout
CheckoutClear(w) ==
  /\ pc[w] = "clear"
  /\ cartItems' = cartItems \ CartOf(local[w].cart)
  /\ pc' = [pc EXCEPT ![w] = "idle"]
  /\ local' = [local EXCEPT ![w] = IdleLocal]
  /\ response' = Answer(201)
  /\ UNCHANGED <<clock, categories, orders, orderItems, coupons, usages, nextId>>

\* The quantity of an update_item request is the JSON number of the body,
\* taken with request.data.get and never validated; the model counts it in
\* halves (1 is 0.5, 2 is 1) and None is a body without it.
UpdateQuantities == {None, 0 - 2, 0, 1} \cup {2 * q : q \in 1 .. MaxCartQuantity}

\* What the PositiveIntegerField column stores of a positive number on save:
\* int(value) of get_prep_value, which cuts the fraction off.
get_prep_value(halves) == halves \div 2

\* PATCH /cart/update_item/: the line is deleted when quantity <= 0, otherwise
\* its quantity is replaced by the quantity of the request.
UpdateItem(u, product_id, quantity) ==
  /\ WorkerFree
  /\ IF product_id = "" \/ quantity = None
     THEN /\ response' = Answer(400)
          /\ UNCHANGED cartItems
     ELSE IF ~ \E r \in CartOf(u) : r.product = product_id
     THEN /\ response' = Answer(404)
          /\ UNCHANGED cartItems
     ELSE LET cart_item == CHOOSE r \in CartOf(u) : r.product = product_id
          IN /\ response' = Answer(200)
             /\ IF quantity <= 0
                THEN cartItems' = cartItems \ {cart_item}
                ELSE cartItems' = (cartItems \ {cart_item})
                       \cup {[cart_item EXCEPT !.quantity = get_prep_value(quantity)]}
  /\ UNCHANGED <<clock, categories, orders, orderItems, coupons, usages, nextId, pc, local>>

\* DELETE /cart/remove_item/
RemoveItem(u, product_id) ==
  /\ WorkerFree
  /\ IF product_id = ""
     THEN /\ response' = Answer(400)
          /\ UNCHANGED cartItems
     ELSE IF ~ \E r \in CartOf(u) : r.product = product_id
     THEN /\ response' = Answer(404)
          /\ UNCHANGED cartItems
     ELSE /\ response' = Answer(200)
          /\ cartItems' = {r \in cartItems : ~ (r.cart = u /\ r.product = product_id)}
  /\ UNCHANGED <<clock, categories, orders, orderItems, coupons, usages, nextId, pc, local>>

\* DELETE /cart/clear/
ClearCart(u) ==
  /\ WorkerFree
  /\ cartItems' = cartItems \ CartOf(u)
  /\ response' = Answer(200)
  /\ UNCHANGED <<clock, categories, orders, orderItems, coupons, usages, nextId, pc, local>>

\* add_item as the statements a worker runs one after the other, so that other
\* requests may run between them: the validation and the SELECT of
\* get_or_create, then either its INSERT or the save of the quantity read.
\* No unique index stops the INSERT of a second line of the same product:
\* unique_together (cart, product, variant) does not compare rows whose
\* variant is NULL.
NoLine == [id |-> 0, cart |-> "", product |-> "", quantity |-> 0]

AddItemLocal(u, product_id, quantity, cart_item) ==
  [cart |-> u, product |-> product_id, quantity |-> quantity,
   cart_item |-> cart_item] @@ IdleLocal

AddItemGet(w, u, product_id, quantity) ==
  /\ pc[w] = "idle"
  /\ IF quantity <= 0 \/ product_id \notin ProductIds \/ quantity > ProductStock(product_id)
     THEN /\ response' = Answer(400)
          /\ UNCHANGED <<pc, local>>
     ELSE LET found == {r \in CartOf(u) : r.product = product_id}
          IN IF Cardinality(found) > 1
             THEN /\ response' = Answer(500)
                  /\ UNCHANGED <<pc, local>>
             ELSE IF found = {}
             THEN /\ response' = NoResponse
                  /\ pc' = [pc EXCEPT ![w] = "cart_create"]
                  /\ local' = [local EXCEPT ![w] =
                       AddItemLocal(u, product_id, quantity, NoLine)]
             ELSE LET cart_item == CHOOSE r \in found : TRUE
                  IN /\ cart_item.quantity + quantity <= MaxCartQuantity
                     /\ response' = NoResponse
                     /\ pc' = [pc EXCEPT ![w] = "cart_save"]
                     /\ local' = [local EXCEPT ![w] =
                          AddItemLocal(u, product_id, quantity, cart_item)]
  /\ UNCHANGED <<clock, categories, orders, orderItems, coupons, usages, nextId, cartItems>>

\* the INSERT of get_or_create, with defaults={'quantity': quantity}
AddItemCreate(w) ==
  /\ pc[w] = "cart_create"
  /\ LET ids == {r.id : r \in cartItems}
         id == IF ids = {} THEN 1
               ELSE 1 + CHOOSE i \in ids : \A j \in ids : j <= i
     IN cartItems' = cartItems \cup
          {[id |-> id, cart |-> local[w].cart, product |-> local[w].product,
            quantity |-> local[w].quantity]}
  /\ pc' = [pc EXCEPT ![w] = "idle"]
  /\ local' = [local EXCEPT ![w] = IdleLocal]
  /\ response' = Answer(200)
  /\ UNCHANGED <<clock, categories, orders, orderItems, coupons, usages, nextId>>

\* cart_item.quantity += quantity; cart_item.save(): the quantity read by the
\* SELECT plus the quantity added is written to the row.
AddItemSave(w) ==
  /\ pc[w] = "cart_save"
  /\ LET cart_item == local[w].cart_item
     IN cartItems' = {r \in cartItems : r.id # cart_item.id}
          \cup {[cart_item EXCEPT !.quantity = @ + local[w].quantity]}
  /\ pc' = [pc EXCEPT ![w] = "idle"]
  /\ local' = [local EXCEPT ![w] = IdleLocal]
  /\ response' = Answer(200)
  /\ UNCHANGED <<clock, categories, orders, orderItems, coupons, usages, nextId>>

\* --------------------------------------------------------------- OrderViewSet

\* get_queryset: staff see every order, others their own.
Visible(u, o) == is_staff(u) \/ orders[o].user = u

\* Model.delete of an order: OrderItem and CouponUsage rows cascade.
DeleteOrder(o) ==
  /\ orders' = [i \in DOMAIN orders \ {o} |-> orders[i]]
  /\ orderItems' = {r \in orderItems : r.order # o}
  /\ usages' = {r \in usages : r.order # o}

\* The object update_status saves on a valid request.
StatusUpdated(order, new_status, notes, now) ==
  LET o1 == [order EXCEPT !.status = new_status]
      o2 == IF notes # "" THEN [o1 EXCEPT !.internal_notes = notes] ELSE o1
  IN IF new_status = "confirmed" /\ o2.confirmed_at = None
     THEN [o2 EXCEPT !.confirmed_at = now]
     ELSE IF new_status = "shipped" /\ o2.shipped_at = None
     THEN [o2 EXCEPT !.shipped_at = now]
     ELSE IF new_status = "delivered" /\ o2.delivered_at = None
     THEN [o2 EXCEPT !.delivered_at = now]
     ELSE o2

\* update_status that sets the notes on the order before it validates, and
\* saves them with the error answer
UpdateStatusKeepsNotes(u, o, value, notes) ==
  /\ WorkerFree
  /\ o \in DOMAIN orders
  /\ IF ~is_staff(u)
     THEN /\ response' = Answer(403)
          /\ UNCHANGED orders
     ELSE IF validate_status(orders[o], value)
     THEN /\ orders' = [orders EXCEPT ![o] =
                          OrderRow(StatusUpdated(orders[o], value, notes, clock))]
          /\ response' = Answer(200)
     ELSE /\ response' = Answer(400)
          /\ orders' = [orders EXCEPT ![o].internal_notes =
                          IF notes # "" THEN notes ELSE @]
  /\ UNCHANGED <<clock, categories, orderItems, coupons, usages, nextId, pc, local, cartItems>>

\* PATCH /orders/{id}/update_status/ (IsAdminUser)
UpdateStatus(u, o, value, notes) ==
  /\ WorkerFree
  /\ o \in DOMAIN orders
  /\ IF ~is_staff(u)
     THEN /\ response' = Answer(403)
          /\ UNCHANGED orders
     ELSE IF validate_status(orders[o], value)
     THEN /\ orders' = [orders EXCEPT ![o] =
                          OrderRow(StatusUpdated(orders[o], value, notes, clock))]
          /\ response' = Answer(200)
     ELSE /\ response' = Answer(400)
          /\ UNCHANGED orders
  /\ UNCHANGED <<clock, categories, orderItems, coupons, usages, nextId, pc, local, cartItems>>

\* POST /orders/{id}/cancel/
Cancel(u, o) ==
  /\ WorkerFree
  /\ o \in DOMAIN orders
  /\ IF ~Visible(u, o)
     THEN /\ response' = Answer(404)
          /\ UNCHANGED orders
     ELSE IF ~can_be_cancelled(orders[o])
     THEN /\ response' = Answer(400)
          /\ UNCHANGED orders
     ELSE /\ orders' = [orders EXCEPT ![o] = OrderRow([orders[o] EXCEPT !.status = "cancelled"])]
          /\ response' = Answer(200)
  /\ UNCHANGED <<clock, categories, orderItems, coupons, usages, nextId, pc, local, cartItems>>

\* PATCH /orders/{id}/add_tracking/ (IsAdminUser)
AddTracking(u, o, tracking_number) ==
  /\ WorkerFree
  /\ o \in DOMAIN orders
  /\ IF ~is_staff(u)
     THEN /\ response' = Answer(403)
          /\ UNCHANGED orders
     ELSE /\ orders' = [orders EXCEPT ![o] =
                          OrderRow([orders[o] EXCEPT !.tracking_number = tracking_number])]
          /\ response' = Answer(200)
  /\ UNCHANGED <<clock, categories, orderItems, coupons, usages, nextId, pc, local, cartItems>>

\* The request bodies of PUT/PATCH /orders/{id}/: the writable fields of
\* OrderSerializer a body sets.
UpdateBodies ==
  {[field |-> "status", value |-> s] : s \in ORDER_STATUSES}
    \cup {[field |-> "internal_notes", value |-> "note"]}

\* Request bodies of PUT/PATCH /orders/{id}/ that set an amount: the amount
\* columns are writable fields of OrderSerializer too.
MoneyBodies ==
  {[field |-> "shipping_cost", value |-> 5 * Micro],
   [field |-> "discount_amount", value |-> 30 * Micro]}

\* OrderSerializer.update: the fields of the body that are not read-only are
\* set on the instance.
Updated(order, body) ==
  IF body.field = "status" THEN [order EXCEPT !.status = body.value]
  ELSE IF body.field = "internal_notes" THEN [order EXCEPT !.internal_notes = body.value]
  ELSE IF body.field = "shipping_cost" THEN [order EXCEPT !.shipping_cost = body.value]
  ELSE IF body.field = "discount_amount" THEN [order EXCEPT !.discount_amount = body.value]
  ELSE order

\* PUT and PATCH /orders/{id}/ (ModelViewSet.update, IsAuthenticated)
Update(u, o, body) ==
  /\ WorkerFree
  /\ o \in DOMAIN orders
  /\ IF ~Visible(u, o)
     THEN /\ response' = Answer(404)
          /\ UNCHANGED orders
     ELSE /\ orders' = [orders EXCEPT ![o] = OrderRow(Updated(orders[o], body))]
          /\ response' = Answer(200)
  /\ UNCHANGED <<clock, categories, orderItems, coupons, usages, nextId, pc, local, cartItems>>

\* DELETE /orders/{id}/ (ModelViewSet.destroy, IsAuthenticated)
Destroy(u, o) ==
  /\ WorkerFree
  /\ o \in DOMAIN orders
  /\ IF ~Visible(u, o)
     THEN /\ response' = Answer(404)
          /\ UNCHANGED <<orders, orderItems, usages>>
     ELSE /\ DeleteOrder(o)
          /\ response' = Answer(204)
  /\ UNCHANGED <<clock, categories, coupons, nextId, pc, local, cartItems>>

\* order.calculate_totals() on a stored order, followed by order.save()
CalculateTotals(o) ==
  /\ WorkerFree
  /\ o \in DOMAIN orders
  /\ orders' = [orders EXCEPT ![o] =
                  OrderRow(calculate_totals(orders[o], {r \in orderItems : r.order = o}))]
  /\ response' = NoResponse
  /\ UNCHANGED <<clock, categories, orderItems, coupons, usages, nextId, pc, local, cartItems>>

\* A call of coupon.is_valid() on the stored coupon; the step answers with the
\* value returned.
IsValidCall(c) ==
  /\ WorkerFree
  /\ c \in DOMAIN coupons
  /\ response' = [code |-> 0, body |-> "is_valid", result |-> is_valid(coupons[c], clock)]
  /\ UNCHANGED <<clock, categories, orders, orderItems, coupons, usages, nextId, pc, local,
                 cartItems>>

\* A call of coupon.calculate_discount(order_amount) on the stored coupon; the
\* step answers with the value returned.
CalculateDiscountCall(c, order_amount) ==
  /\ WorkerFree
  /\ c \in DOMAIN coupons
  /\ response' = [code |-> 0, body |-> "calculate_discount",
                  order_amount |-> order_amount,
                  result |-> calculate_discount(coupons[c], order_amount, clock)]
  /\ UNCHANGED <<clock, categories, orders, orderItems, coupons, usages, nextId, pc, local,
                 cartItems>>

\* A call of get_shipping_cost; the step answers with the value returned.
GetShippingCostCall(subtotal, shipping_method) ==
  /\ WorkerFree
  /\ response' = [code |-> 0, body |-> "get_shipping_cost", subtotal |-> subtotal,
                  shipping_method |-> shipping_method,
                  result |-> get_shipping_cost(subtotal, shipping_method)]
  /\ UNCHANGED <<clock, categories, orders, orderItems, coupons, usages, nextId, pc, local,
                 cartItems>>

\* A call of calculate_tax; the step answers with the value returned.
CalculateTaxCall(amount, tax_rate) ==
  /\ WorkerFree
  /\ response' = [code |-> 0, body |-> "calculate_tax", amount |-> amount,
                  tax_rate |-> tax_rate, result |-> calculate_tax(amount, tax_rate)]
  /\ UNCHANGED <<clock, categories, orders, orderItems, coupons, usages, nextId, pc, local,
                 cartItems>>

\* validate_coupon that counts a use of every coupon it finds valid
ValidateCouponCounting(u, code) ==
  /\ WorkerFree
  /\ IF code = ""
     THEN response' = Answer(400) /\ UNCHANGED coupons
     ELSE IF code \notin DOMAIN coupons
     THEN response' = [code |-> 200, body |-> "Coupon does not exist."] /\ UNCHANGED coupons
     ELSE IF is_valid(coupons[code], clock)
     THEN /\ response' = [code |-> 200, body |-> "valid"]
          /\ coupons' = [coupons EXCEPT ![code].usage_count = @ + 1]
     ELSE /\ response' = [code |-> 200, body |-> "Coupon is not valid or has expired."]
          /\ UNCHANGED coupons
  /\ UNCHANGED <<clock, categories, orders, orderItems, usages, nextId, pc, local, cartItems>>

\* POST /orders/validate_coupon/
ValidateCoupon(u, code) ==
  /\ WorkerFree
  /\ IF code = ""
     THEN response' = Answer(400)
     ELSE IF code \notin DOMAIN coupons
     THEN response' = [code |-> 200, body |-> "Coupon does not exist."]
     ELSE IF is_valid(coupons[code], clock)
     THEN response' = [code |-> 200, body |-> "valid"]
     ELSE response' = [code |-> 200, body |-> "Coupon is not valid or has expired."]
  /\ UNCHANGED <<clock, categories, orders, orderItems, coupons, usages, nextId, pc, local,
                 cartItems>>

\* ---------------------------------------------------------- specifications

\* The steps of order creations whose requests carry one of the given item
\* lists.
CreationOf(cap, choices) ==
  \/ \E w \in DOMAIN pc, u \in Customers, items \in choices, code \in CodeChoices :
       CreateBegin(w, u, items, code, cap)
  \/ \E w \in DOMAIN pc : CreateCoupon(w)
  \/ \E w \in DOMAIN pc : CreateCouponSave(w)
  \/ \E w \in DOMAIN pc : CreateUsage(w)
  \/ \E w \in DOMAIN pc : CreateFinal(w)

Creation(cap) == CreationOf(cap, ItemChoices)

\* Spec: every endpoint of OrderViewSet that writes, requests served by
\* NumWorkers workers, on a database with one coupon limited to one use.
Init == InitWith(1 .. NumWorkers, {1})

Next ==
  \/ Tick
  \/ Creation(MaxOrders)
  \/ \E u \in {"alice", "admin"}, o \in DOMAIN orders, value \in ORDER_STATUSES,
          notes \in {"", "note"} :
       UpdateStatus(u, o, value, notes)
  \/ \E u \in Users, o \in DOMAIN orders : Cancel(u, o)
  \/ \E u \in {"alice", "admin"}, o \in DOMAIN orders : AddTracking(u, o, "1Z999")
  \/ \E u \in Users, o \in DOMAIN orders, body \in UpdateBodies : Update(u, o, body)
  \/ \E u \in Users, o \in DOMAIN orders : Destroy(u, o)

Spec == Init /\ [][Next]_vars

\* SpecSeq: order creations and coupon validations served one request at a
\* time, on a coupon whose usage_limit is blank, 0 or 1.
InitSeq == InitWith({1}, {None, 0, 1})

NextCoupon ==
  \/ Tick
  \/ Creation(RaceOrders)
  \/ \E u \in Users, code \in CodeChoices : ValidateCoupon(u, code)

SpecSeq == InitSeq /\ [][NextCoupon]_vars

\* SpecRace: the same requests served by RaceWorkers concurrent workers.
InitRace == InitWith(1 .. RaceWorkers, {None, 0, 1})

SpecRace == InitRace /\ [][NextCoupon]_vars

\* SpecTotals: the amounts of an order through its creation, the generic
\* update of an amount, calculate_totals and cancel, one request at a time,
\* with products of 10.00 and 33.35 and a 10% coupon without limit.
TotalsItemChoices ==
  { << [product_id |-> "mug", quantity |-> 2] >>,
    << [product_id |-> "pen", quantity |-> 1] >> }

InitTotals == InitWith({1}, {None})

NextTotals ==
  \/ Tick
  \/ CreationOf(MaxOrders, TotalsItemChoices)
  \/ \E u \in Customers, o \in DOMAIN orders, body \in MoneyBodies : Update(u, o, body)
  \/ \E o \in DOMAIN orders : CalculateTotals(o)
  \/ \E u \in Customers, o \in DOMAIN orders : Cancel(u, o)

SpecTotals == InitTotals /\ [][NextTotals]_vars

\* SpecCoupon: Coupon.is_valid and Coupon.calculate_discount on coupons of
\* every kind, and order creations that name the coupon, one request at a
\* time.
\* Coupons that differ in what is_valid reads.
ValidityCoupons ==
  { [discount_type |-> "percentage",
     discount_value |-> 10 * Micro,
     minimum_order_amount |-> None,
     maximum_discount_amount |-> None,
     usage_limit |-> lim,
     usage_count |-> cnt,
     is_active |-> act,
     valid_from |-> vf,
     valid_until |-> vu] :
      lim \in {None, 0, 1}, cnt \in {0, 1}, act \in BOOLEAN, vf \in {0, 1},
      vu \in {None, 0} }

\* Coupons that differ in what calculate_discount reads.
DiscountCoupons ==
  { [discount_type |-> ty,
     discount_value |-> val,
     minimum_order_amount |-> mn,
     maximum_discount_amount |-> mx,
     usage_limit |-> None,
     usage_count |-> 0,
     is_active |-> act,
     valid_from |-> 0,
     valid_until |-> None] :
      ty \in {"percentage", "fixed_amount"}, val \in {0, 10 * Micro, 150 * Micro},
      mn \in {None, 0, 30 * Micro}, mx \in {None, 0, 3 * Micro}, act \in BOOLEAN }

\* order amounts calculate_discount is asked about
OrderAmounts == {0, 20 * Micro, 3335 * Cent, 100 * Micro}

CouponItemChoices == { << [product_id |-> "pen", quantity |-> 1] >> }

InitCoupon ==
  /\ clock = 0
  /\ orders = << >>
  /\ orderItems = {}
  /\ coupons \in {[c \in {"SAVE10"} |-> row] : row \in ValidityCoupons \cup DiscountCoupons}
  /\ usages = {}
  /\ nextId = 0
  /\ pc = [w \in {1} |-> "idle"]
  /\ local = [w \in {1} |-> IdleLocal]
  /\ response = NoResponse
  /\ cartItems = {}
  /\ categories = << >>

NextCouponCalls ==
  \/ Tick
  \/ \E c \in DOMAIN coupons : IsValidCall(c)
  \/ \E c \in DOMAIN coupons, order_amount \in OrderAmounts :
       CalculateDiscountCall(c, order_amount)
  \/ CreationOf(MaxOrders, CouponItemChoices)

SpecCoupon == InitCoupon /\ [][NextCouponCalls]_vars

\* SpecUtils: calls of get_shipping_cost and calculate_tax with Decimal
\* arguments of 2 places.
Subtotals ==
  {0, 599 * Cent, 1299 * Cent, 50 * Micro, 9999 * Cent, 100 * Micro, 10001 * Cent,
   150 * Micro}

ShippingMethods ==
  {"standard", "express", "overnight", "international", "Standard", "EXPRESS",
   "pickup", ""}

TaxedAmounts ==
  {0, 6 * Cent, 20 * Cent, Micro, 3333 * Cent, 50 * Micro, 9999 * Cent, 100 * Micro}

TaxRates == {0, Cent, 625 * Cent, 675 * Cent, 825 * Cent, 10 * Micro, 100 * Micro}

InitUtils == InitWith({1}, {None})

NextUtils ==
  \/ \E subtotal \in Subtotals, shipping_method \in ShippingMethods :
       GetShippingCostCall(subtotal, shipping_method)
  \/ \E amount \in TaxedAmounts, tax_rate \in TaxRates : CalculateTaxCall(amount, tax_rate)

SpecUtils == InitUtils /\ [][NextUtils]_vars

\* SpecCart: a cart of one product filled by add_item and checked out, and
\* order creations with an empty item list, one request at a time.
EmptyItemChoices == { << >> }

\* product ids add_item is asked for: a product and an id of no product
CartProductChoices == {"mug", "ghost"}

InitCart == InitWith({1}, {None})

NextCart ==
  \/ Tick
  \/ \E u \in Customers, product_id \in CartProductChoices, quantity \in 0 .. 2 :
       AddItem(u, product_id, quantity)
  \/ \E w \in DOMAIN pc, u \in Customers, code \in CodeChoices :
       CheckoutBegin(w, u, code, MaxOrders)
  \/ CreationOf(MaxOrders, EmptyItemChoices)
  \/ \E w \in DOMAIN pc : CheckoutClear(w)

SpecCart == InitCart /\ [][NextCart]_vars

\* SpecCartOps: every endpoint of CartViewSet that writes, and order creation,
\* one request at a time.
OpsItemChoices == { << [product_id |-> "mug", quantity |-> 0] >> }

NextCartOps ==
  \/ Tick
  \/ \E u \in Customers, product_id \in CartProductChoices, quantity \in 0 .. 3 :
       AddItem(u, product_id, quantity)
  \/ \E u \in Customers, product_id \in {"", "mug"}, quantity \in UpdateQuantities :
       UpdateItem(u, product_id, quantity)
  \/ \E u \in Customers, product_id \in {"", "mug"} : RemoveItem(u, product_id)
  \/ \E u \in Customers : ClearCart(u)
  \/ \E w \in DOMAIN pc, u \in Customers, body \in CheckoutBodies, code \in CodeChoices :
       Checkout(w, u, body, code, MaxOrders)
  \/ CreationOf(MaxOrders, OpsItemChoices)
  \/ \E w \in DOMAIN pc : CheckoutClear(w)

SpecCartOps == InitCart /\ [][NextCartOps]_vars

\* SpecCartRace: add_item requests served by RaceWorkers concurrent workers.
InitCartRace == InitWith(1 .. RaceWorkers, {None})

NextCartRace ==
  \/ \E w \in DOMAIN pc, u \in Customers, product_id \in CartProductChoices,
          quantity \in 0 .. 2 :
       AddItemGet(w, u, product_id, quantity)
  \/ \E w \in DOMAIN pc : AddItemCreate(w)
  \/ \E w \in DOMAIN pc : AddItemSave(w)

SpecCartRace == InitCartRace /\ [][NextCartRace]_vars

\* ------------------------------------------------------------ Category model

\* categories[c] is the parent of category c, None for a root; the categories
\* are numbered in the order of their creation and are all active.
MaxCategories == 3

ParentChoices == {None} \cup DOMAIN categories

\* POST /categories/: the parent named must be a stored category or null.
CreateCategory(parent) ==
  /\ WorkerFree
  /\ Len(categories) < MaxCategories
  /\ parent \in ParentChoices
  /\ categories' = Append(categories, parent)
  /\ response' = Answer(201)
  /\ UNCHANGED <<clock, orders, orderItems, coupons, usages, nextId, pc, local,
                 cartItems>>

\* PATCH /categories/{c}/ with a parent: CategorySerializer checks that the
\* parent is a stored category or null, nothing else.
UpdateCategory(c, parent) ==
  /\ WorkerFree
  /\ c \in DOMAIN categories
  /\ parent \in ParentChoices
  /\ categories' = [categories EXCEPT ![c] = parent]
  /\ response' = Answer(200)
  /\ UNCHANGED <<clock, orders, orderItems, coupons, usages, nextId, pc, local,
                 cartItems>>

\* A walk over the table that has taken more steps than there are categories
\* has come back to a category and goes on for ever (the while loop of
\* get_ancestors) or until the interpreter's recursion limit (level,
\* get_descendants): the outcome of a call is the value returned, or
\* returned = FALSE.
NotReturned == [returned |-> FALSE, value |-> << >>]

\* Category.get_ancestors: the parents from the direct one upwards, reversed.
RECURSIVE AncestorsLoop(_, _, _)
AncestorsLoop(current, ancestors, fuel) ==
  IF current = None THEN [returned |-> TRUE, value |-> ancestors]
  ELSE IF fuel = 0 THEN NotReturned
  ELSE AncestorsLoop(categories[current], << current >> \o ancestors, fuel - 1)

get_ancestors(c) == AncestorsLoop(categories[c], << >>, Len(categories))

\* Category.level
RECURSIVE LevelFrom(_, _)
LevelFrom(c, fuel) ==
  IF categories[c] = None THEN [returned |-> TRUE, value |-> 0]
  ELSE IF fuel = 0 THEN [returned |-> FALSE, value |-> 0]
  ELSE LET up == LevelFrom(categories[c], fuel - 1)
       IN [returned |-> up.returned, value |-> up.value + 1]

level(c) == LevelFrom(c, Len(categories))

\* Category.get_descendants: each child followed by its own descendants.
children(c) == {d \in DOMAIN categories : categories[d] = c}

RECURSIVE DescendantsOfAll(_, _)
DescendantsOfAll(cs, fuel) ==
  IF cs = {} THEN [returned |-> TRUE, value |-> << >>]
  ELSE IF fuel = 0 THEN NotReturned
  ELSE LET child == CHOOSE d \in cs : \A e \in cs : d <= e
           below == DescendantsOfAll(children(child), fuel - 1)
           rest == DescendantsOfAll(cs \ {child}, fuel)
       IN IF below.returned /\ rest.returned
          THEN [returned |-> TRUE, value |-> << child >> \o below.value \o rest.value]
          ELSE NotReturned

get_descendants(c) == DescendantsOfAll(children(c), Len(categories))

\* calls of the three methods on a stored category
GetAncestorsCall(c) ==
  /\ c \in DOMAIN categories
  /\ response' = [code |-> 200, body |-> "get_ancestors", category |-> c,
                  result |-> get_ancestors(c)]
  /\ UNCHANGED <<clock, categories, orders, orderItems, coupons, usages, nextId, pc,
                 local, cartItems>>

LevelCall(c) ==
  /\ c \in DOMAIN categories
  /\ response' = [code |-> 200, body |-> "level", category |-> c,
                  result |-> level(c)]
  /\ UNCHANGED <<clock, categories, orders, orderItems, coupons, usages, nextId, pc,
                 local, cartItems>>

GetDescendantsCall(c) ==
  /\ c \in DOMAIN categories
  /\ response' = [code |-> 200, body |-> "get_descendants", category |-> c,
                  result |-> get_descendants(c)]
  /\ UNCHANGED <<clock, categories, orders, orderItems, coupons, usages, nextId, pc,
                 local, cartItems>>

\* SpecCategories: creations and parent reassignments of categories, and the
\* calls of the three walks.
NextCategories ==
  \/ \E parent \in {None} \cup 1 .. MaxCategories : CreateCategory(parent)
  \/ \E c \in 1 .. MaxCategories, parent \in {None} \cup 1 .. MaxCategories :
       UpdateCategory(c, parent)
  \/ \E c \in 1 .. MaxCategories : GetAncestorsCall(c)
  \/ \E c \in 1 .. MaxCategories : LevelCall(c)
  \/ \E c \in 1 .. MaxCategories : GetDescendantsCall(c)

SpecCategories == InitCart /\ [][NextCategories]_vars

\* SpecLifecycle: orders created pending and moved only by update_status, one
\* request at a time.
LifecycleItemChoices == { << [product_id |-> "mug", quantity |-> 2] >> }

InitLifecycle == InitWith({1}, {None})

NextLifecycle ==
  \/ Tick
  \/ CreationOf(MaxOrders, LifecycleItemChoices)
  \/ \E u \in {"alice", "admin"}, o \in DOMAIN orders, value \in ORDER_STATUSES :
       UpdateStatus(u, o, value, "")

SpecLifecycle == InitLifecycle /\ [][NextLifecycle]_vars

\* ------------------------------------------------------------------ claims

\* The transition table of the order status state machine, as specified.
TransitionTable(s) ==
  IF s = "pending" THEN {"confirmed", "cancelled"}
  ELSE IF s = "confirmed" THEN {"processing", "cancelled"}
  ELSE IF s = "processing" THEN {"shipped", "cancelled"}
  ELSE IF s = "shipped" THEN {"delivered"}
  ELSE IF s = "delivered" THEN {"refunded"}
  ELSE {}

\* The stored orders that carry a discount of coupon c.
RedeemedOrders(c) ==
  {o \in DOMAIN orders :
     orders[o].discount_amount > 0 /\ \E r \in usages : r.coupon = c /\ r.order = o}

\* C1: under every interleaving of concurrent order creations naming the same
\* coupon, a coupon with a usage limit is never redeemed more often than the
\* limit: usage_count <= usage_limit and at most usage_limit orders carry a
\* discount from it. Stated for the positive limits, where the limit is in
\* force in is_valid.
C1_NeverOverRedeemed ==
  \A c \in DOMAIN coupons :
    coupons[c].usage_limit # None /\ coupons[c].usage_limit > 0 =>
      /\ coupons[c].usage_count <= coupons[c].usage_limit
      /\ Cardinality(RedeemedOrders(c)) <= coupons[c].usage_limit

\* C2: for every coupon whose usage_limit is set (0 included) and which starts
\* with usage_count <= usage_limit, usage_count <= usage_limit holds after any
\* sequential series of order creations.
C2_CountWithinLimit ==
  \A c \in DOMAIN coupons :
    coupons[c].usage_limit # None => coupons[c].usage_count <= coupons[c].usage_limit

\* C3: each order creation that applies a coupon raises the coupon's stored
\* usage_count by exactly 1 (the step that saves the coupon) and answers 201
\* with exactly one CouponUsage row recorded for its order; every other step
\* leaves every usage_count as it is.
C3_CountedOncePerOrder ==
  [][/\ \A c \in DOMAIN coupons :
          IF \E w \in DOMAIN pc : CreateCouponSave(w) /\ local[w].code = c
          THEN coupons'[c].usage_count = coupons[c].usage_count + 1
          ELSE coupons'[c].usage_count = coupons[c].usage_count
     /\ \A w \in DOMAIN pc :
          CreateFinal(w) /\ local[w].discount > 0 =>
            Cardinality({r \in usages' : r.order = local[w].order}) = 1]_vars

\* C4: validating a coupon for display changes no field of any coupon and no
\* usage row, so that is_valid and calculate_discount give the same results
\* after it as before it, at the same clock value.
C4_DisplayIsPure ==
  [][(\E u \in Users, code \in CodeChoices : ValidateCoupon(u, code)) =>
       /\ coupons' = coupons
       /\ usages' = usages
       /\ clock' = clock
       /\ \A c \in DOMAIN coupons, amount \in {0, 10 * Micro, 20 * Micro} :
            /\ is_valid(coupons'[c], clock') = is_valid(coupons[c], clock)
            /\ calculate_discount(coupons'[c], amount, clock')
                 = calculate_discount(coupons[c], amount, clock)]_vars

\* C4 witness: validate_coupon has answered that a coupon already used by an
\* order is valid.
C4_Witness ==
  /\ response.body = "valid"
  /\ \E c \in DOMAIN coupons : coupons[c].usage_count > 0

\* C5: an order is created with status pending, and every later change of its
\* status, by whatever operation, is a pair of the transition table.
C5_OnlyTableTransitions ==
  [][\A o \in DOMAIN orders' :
       IF o \in DOMAIN orders
       THEN orders'[o].status # orders[o].status =>
              orders'[o].status \in TransitionTable(orders[o].status)
       ELSE orders'[o].status = "pending"]_vars

\* C6: update_status by a staff user accepts the requested status (answers 200
\* and stores it) if and only if the transition table allows it from the
\* order's current status, and answers 400 otherwise.
C6_ValidatorIsTheTable ==
  [][\A u \in {x \in Users : is_staff(x)}, o \in DOMAIN orders,
        value \in ORDER_STATUSES, notes \in {"", "note"} :
       UpdateStatus(u, o, value, notes) =>
         IF value \in TransitionTable(orders[o].status)
         THEN response'.code = 200 /\ orders'[o].status = value
         ELSE response'.code = 400]_vars

\* C6 witness: an order was taken to delivered through update_status.
C6_Witness ==
  \E o \in DOMAIN orders :
    /\ orders[o].status = "delivered"
    /\ orders[o].delivered_at # None
    /\ response.code = 200

\* C7: a PUT, PATCH or DELETE of /orders/{id}/ by a user who is not staff
\* changes no field of any order and removes no order.
C7_OnlyStaffWrite ==
  [][\A u \in Users, o \in DOMAIN orders :
       ~is_staff(u) /\ (Destroy(u, o) \/ \E body \in UpdateBodies : Update(u, o, body)) =>
         UNCHANGED <<orders, orderItems, usages>>]_vars

\* C8: update_status asked for a status the table does not allow from the
\* current status answers 400 and leaves the order table as it was.
C8_RejectedChangesNothing ==
  [][\A u \in {x \in Users : is_staff(x)}, o \in DOMAIN orders,
        value \in ORDER_STATUSES, notes \in {"", "note"} :
       /\ value \notin TransitionTable(orders[o].status)
       /\ UpdateStatus(u, o, value, notes)
       => response'.code = 400 /\ orders' = orders]_vars

\* C8 witness: a request with notes was refused on a shipped order, whose
\* notes are still blank.
C8_Witness ==
  /\ response.code = 400
  /\ \E o \in DOMAIN orders :
       /\ orders[o].status = "shipped"
       /\ orders[o].shipped_at # None
       /\ orders[o].internal_notes = Null

\* C9: in every reachable state an order with status confirmed has
\* confirmed_at set, one with status shipped has shipped_at set and one with
\* status delivered has delivered_at set.
C9_TimestampOfStatus ==
  \A o \in DOMAIN orders :
    /\ orders[o].status = "confirmed" => orders[o].confirmed_at # None
    /\ orders[o].status = "shipped" => orders[o].shipped_at # None
    /\ orders[o].status = "delivered" => orders[o].delivered_at # None

\* C10: can_be_cancelled is true exactly of pending and confirmed orders, and
\* cancel sets the status to cancelled and answers 200 if the order is one the
\* requester can reach and is pending or confirmed, and otherwise answers with
\* an error (400, or 404 for an order outside the requester's queryset) and
\* leaves the order table as it was.
C10_CancelOnlyEarly ==
  [][\A u \in Users, o \in DOMAIN orders :
       /\ can_be_cancelled(orders[o]) <=> orders[o].status \in {"pending", "confirmed"}
       /\ Cancel(u, o) =>
            IF Visible(u, o) /\ orders[o].status \in {"pending", "confirmed"}
            THEN orders'[o].status = "cancelled" /\ response'.code = 200
            ELSE /\ response'.code = (IF Visible(u, o) THEN 400 ELSE 404)
                 /\ orders' = orders]_vars

\* C10 witness: a confirmed order was cancelled.
C10_Witness ==
  \E o \in DOMAIN orders :
    /\ orders[o].status = "cancelled"
    /\ orders[o].confirmed_at # None
    /\ response.code = 200

\* C11: every stored order satisfies total_amount = subtotal + shipping_cost
\* + tax_amount - discount_amount, right after its creation, after
\* calculate_totals and after every later operation of the order API.
C11_TotalIsTheSum ==
  \A o \in DOMAIN orders :
    orders[o].total_amount =
      orders[o].subtotal + orders[o].shipping_cost + orders[o].tax_amount
        - orders[o].discount_amount

\* C12: the total_amount that order creation and calculate_totals produce is
\* never negative, whatever the non-negative shipping_cost, tax_amount and
\* discount_amount of the order.
C12_TotalNeverNegative ==
  \A o \in DOMAIN orders :
    orders[o].shipping_cost >= 0 /\ orders[o].tax_amount >= 0
      /\ orders[o].discount_amount >= 0
      => orders[o].total_amount >= 0

\* C13: for every coupon and every order_amount >= 0, calculate_discount
\* returns an amount between 0 and order_amount inclusive, and the
\* discount_amount of every stored order is at most its subtotal.
C13_DiscountWithinAmount ==
  /\ response.body = "calculate_discount" =>
       0 <= response.result /\ response.result <= response.order_amount
  /\ \A o \in DOMAIN orders :
       0 <= orders[o].discount_amount /\ orders[o].discount_amount <= orders[o].subtotal

\* C13 witness: an order was created whose discount is its whole subtotal, and
\* calculate_discount has returned the whole of a positive order amount.
C13_Witness ==
  /\ response.body = "calculate_discount"
  /\ response.order_amount > 0
  /\ response.result = response.order_amount
  /\ \E o \in DOMAIN orders :
       orders[o].discount_amount > 0 /\ orders[o].discount_amount = orders[o].subtotal

\* C15: is_valid at time now returns false if and only if is_active is false,
\* or now < valid_from, or valid_until is set and now > valid_until, or
\* usage_limit is set (0 included) and usage_count >= usage_limit; it returns
\* true otherwise and changes no field.
C15_IsValidIffNoReason ==
  [][\A c \in DOMAIN coupons :
       IsValidCall(c) =>
         /\ response'.result =
              ~ \/ ~coupons[c].is_active
                \/ clock < coupons[c].valid_from
                \/ coupons[c].valid_until # None /\ clock > coupons[c].valid_until
                \/ coupons[c].usage_limit # None
                     /\ coupons[c].usage_count >= coupons[c].usage_limit
         /\ coupons' = coupons]_vars

\* C16: whenever maximum_discount_amount is set (0.00 included),
\* calculate_discount returns no more than maximum_discount_amount.
C16_NeverAboveMaximum ==
  [][\A c \in DOMAIN coupons, order_amount \in OrderAmounts :
       CalculateDiscountCall(c, order_amount)
         /\ coupons[c].maximum_discount_amount # None
         => response'.result <= coupons[c].maximum_discount_amount]_vars

\* C17: calculate_discount returns an amount in whole cents (rounded to 2
\* decimal places), and every discount recorded for an order is the amount
\* taken off its total.
C17_DiscountInWholeCents ==
  /\ response.body = "calculate_discount" => response.result % Cent = 0
  /\ \A r \in usages :
       r.order \in DOMAIN orders /\ pc = [w \in DOMAIN pc |-> "idle"] =>
         orders[r.order].total_amount = orders[r.order].subtotal - r.discount_amount

\* C18: get_shipping_cost returns 0.00 for every subtotal >= 100.00 whatever
\* the method, and below 100.00 the flat rate of the method (standard 5.99,
\* express 12.99, overnight 24.99, international 15.99, in any letter case),
\* every unrecognised name getting 5.99.
C18_ShippingRate ==
  response.body = "get_shipping_cost" =>
    LET m == response.shipping_method
    IN response.result =
         IF response.subtotal >= 100 * Micro THEN 0
         ELSE IF m \in {"express", "EXPRESS"} THEN 1299 * Cent
         ELSE IF m = "overnight" THEN 2499 * Cent
         ELSE IF m = "international" THEN 1599 * Cent
         ELSE 599 * Cent

\* C18 witness: get_shipping_cost(100.00, 'express') has returned 0.00.
C18_Witness ==
  /\ response.body = "get_shipping_cost"
  /\ response.subtotal = 100 * Micro
  /\ response.shipping_method = "express"
  /\ response.result = 0

\* C19: calculate_tax(amount, rate) is amount * rate / 100 rounded to whole
\* cents, a tie going up; a zero rate gives 0.00, calculate_tax(33.33, 6.75)
\* is 2.25 and calculate_tax(50.00, 8.25) is 4.13.
C19_TaxHalfUp ==
  response.body = "calculate_tax" =>
    LET exact == (response.amount \div Cent) * (response.tax_rate \div Cent)
        tax == response.result
    IN /\ tax % Cent = 0
       /\ 2 * (tax - exact) <= Cent
       /\ 2 * (exact - tax) < Cent
       /\ response.tax_rate = 0 => tax = 0
       /\ response.amount = 3333 * Cent /\ response.tax_rate = 675 * Cent => tax = 225 * Cent
       /\ response.amount = 50 * Micro /\ response.tax_rate = 825 * Cent => tax = 413 * Cent

\* C19 witness: calculate_tax(50.00, 8.25), a tie at 4.125, has returned 4.13.
C19_Witness ==
  /\ response.body = "calculate_tax"
  /\ response.amount = 50 * Micro
  /\ response.tax_rate = 825 * Cent
  /\ response.result = 413 * Cent

\* C14: order creation sets shipping_cost from the subtotal and a shipping
\* method (0.00 from 100.00 on, else the method's flat rate) and tax_amount
\* from the subtotal and a tax rate, and total_amount includes both.
C14_ShippingAndTaxSet ==
  [][\A w \in DOMAIN pc :
       CreateFinal(w) =>
         LET o == orders'[local[w].order]
         IN /\ \E m \in ShippingMethods :
                 o.shipping_cost = get_shipping_cost(o.subtotal, m)
            /\ \E tax_rate \in TaxRates : o.tax_amount = calculate_tax(o.subtotal, tax_rate)
            /\ o.total_amount = o.subtotal - local[w].discount + o.shipping_cost
                                  + o.tax_amount]_vars

\* C20: an order creation request with an empty item list is answered 400 and
\* creates no Order, OrderItem or CouponUsage and changes no coupon; a checkout
\* of a cart with no items is answered 400 and creates no order.
C20_EmptyOrderRejected ==
  [][\A w \in DOMAIN pc, u \in Customers, code \in CodeChoices :
       /\ CreateBegin(w, u, << >>, code, MaxOrders) =>
            /\ response'.code = 400
            /\ UNCHANGED <<orders, orderItems, usages, coupons>>
       /\ CheckoutBegin(w, u, code, MaxOrders) /\ CartOf(u) = {} =>
            /\ response'.code = 400
            /\ UNCHANGED <<orders, orderItems, usages, coupons, cartItems>>]_vars

\* C20 witness: a checkout was refused for its empty cart, after an earlier
\* checkout had turned the cart into an order.
C20_Witness ==
  /\ response.body = "Cart is empty."
  /\ cartItems = {}
  /\ categories = << >>
  /\ \E o \in DOMAIN orders : \E r \in orderItems : r.order = o

\* C22: an order creation that names a code of no coupon still succeeds: its
\* coupon step goes on to the final save, which answers 201 and stores
\* discount_amount 0.00 and total_amount equal to the subtotal; no CouponUsage
\* is recorded and no coupon changes.
C22_UnknownCouponIgnored ==
  [][\A w \in DOMAIN pc :
       local[w].code # "" /\ local[w].code \notin DOMAIN coupons =>
         /\ CreateCoupon(w) =>
              pc'[w] = "final" /\ coupons' = coupons /\ usages' = usages
         /\ CreateFinal(w) =>
              LET o == orders'[local[w].order]
              IN /\ response'.code = 201
                 /\ o.discount_amount = 0
                 /\ o.total_amount = o.subtotal
                 /\ coupons' = coupons
                 /\ {r \in usages' : r.order = local[w].order} = {}]_vars

\* C22 witness: a creation that named the unknown code NOPE has passed its
\* coupon step and is about to save its order.
C22_Witness ==
  \E w \in DOMAIN pc :
    /\ pc[w] = "final"
    /\ local[w].code = "NOPE"
    /\ local[w].order \in DOMAIN orders
    /\ local[w].obj.subtotal > 0

\* The statuses the validator accepts for an order whose status is s, and the
\* statuses reached from a set of statuses by exactly n accepted transitions.
Accepted(s) == {t \in ORDER_STATUSES : validate_status([status |-> s], t)}

RECURSIVE StepsFrom(_, _)
StepsFrom(S, n) ==
  IF n = 0 THEN S ELSE StepsFrom(UNION {Accepted(s) : s \in S}, n - 1)

\* C23: the accepted transitions have no self-loop and no way back: after an
\* accepted transition the status left is not reached again by any number of
\* accepted transitions; no chain of accepted transitions from pending is
\* longer than 5, and the statuses without a successor are cancelled and
\* refunded.
C23_NoWayBack ==
  [][\A u \in {x \in Users : is_staff(x)}, o \in DOMAIN orders,
        value \in ORDER_STATUSES :
       UpdateStatus(u, o, value, "") /\ response'.code = 200 =>
         /\ \A n \in 0 .. 7 : orders[o].status \notin StepsFrom({orders'[o].status}, n)
         /\ StepsFrom({"pending"}, 6) = {}
         /\ {s \in ORDER_STATUSES : Accepted(s) = {}} = {"cancelled", "refunded"}]_vars

\* C23 witness: an order has gone the longest way, the 5 transitions from
\* pending to refunded.
C23_Witness ==
  \E o \in DOMAIN orders :
    /\ orders[o].status = "refunded"
    /\ orders[o].confirmed_at # None
    /\ orders[o].shipped_at # None
    /\ orders[o].delivered_at # None

\* C21: every stored CartItem and every stored OrderItem has quantity >= 1.
C21_QuantitiesAtLeastOne ==
  /\ \A r \in cartItems : r.quantity >= 1
  /\ \A r \in orderItems : r.quantity >= 1

\* C28: the quantity of a cart line never exceeds the stock of its product.
C28_LineWithinStock ==
  \A r \in cartItems : r.quantity <= ProductStock(r.product)

\* The lines of a set of CartItem or OrderItem rows, as (product, quantity).
LinesOf(rows) == {[product |-> r.product, quantity |-> r.quantity] : r \in rows}

\* C29: a checkout that succeeds has created one order, owned by the
\* requester, whose items are exactly the lines of the cart, and leaves the
\* cart empty; a checkout that is rejected creates no order and leaves the
\* cart as it was.
C29_CheckoutMovesCart ==
  [][/\ \A w \in DOMAIN pc :
          CheckoutClear(w) =>
            LET u == local[w].cart
                o == local[w].order
            IN /\ response'.code = 201
               /\ orders'[o].user = u
               /\ LinesOf({r \in orderItems' : r.order = o}) = LinesOf(CartOf(u))
               /\ {r \in cartItems' : r.cart = u} = {}
     /\ \A w \in DOMAIN pc, u \in Customers, body \in CheckoutBodies,
           code \in CodeChoices :
          Checkout(w, u, body, code, MaxOrders) /\ response'.code = 400 =>
            orders' = orders /\ orderItems' = orderItems /\ cartItems' = cartItems]_vars

\* C25: stored order numbers are pairwise different, and the creation of an
\* order with valid items of existing products never fails, not even when
\* another order was created within the same second.
C25_OrderNumbersNeverCollide ==
  [][/\ \A o1, o2 \in DOMAIN orders' :
          orders'[o1].order_number = orders'[o2].order_number => o1 = o2
     /\ \A w \in DOMAIN pc, u \in Customers, items \in ItemChoices, code \in CodeChoices :
          /\ CreateBegin(w, u, items, code, RaceOrders)
          /\ ItemsValid(items)
          /\ \A i \in 1 .. Len(items) : items[i].product_id \in ProductIds
          => response'.code # 500]_vars

\* C26: whenever no order creation is under way, the usage_count of every
\* coupon equals the number of CouponUsage rows that reference it.
C26_CountEqualsUsageRows ==
  (\A w \in DOMAIN pc : pc[w] = "idle") =>
    \A c \in DOMAIN coupons :
      coupons[c].usage_count = Cardinality({r \in usages : r.coupon = c})

\* C27: order creation is all-or-nothing: a creation that fails leaves no Order,
\* OrderItem or CouponUsage row behind, and every stored order has at least
\* one OrderItem.
C27_CreationAllOrNothing ==
  [][/\ \A w \in DOMAIN pc, u \in Customers, items \in ItemChoices, code \in CodeChoices :
          CreateBegin(w, u, items, code, RaceOrders) /\ response'.code = 500 =>
            orders' = orders /\ orderItems' = orderItems /\ usages' = usages
     /\ \A o \in DOMAIN orders' : \E r \in orderItems' : r.order = o]_vars

\* C24: under every interleaving of concurrent add_item requests a cart has
\* at most one line per product (the variant being none), and a request that
\* finds the line adds its quantity to the quantity stored.
C24_OneLinePerProduct ==
  [][/\ \A r1, r2 \in cartItems' :
          r1.cart = r2.cart /\ r1.product = r2.product => r1 = r2
     /\ \A w \in DOMAIN pc :
          AddItemSave(w) =>
            \E r \in cartItems, s \in cartItems' :
              /\ r.id = local[w].cart_item.id
              /\ s.id = r.id
              /\ s.quantity = r.quantity + local[w].quantity]_vars

\* C30: every call of get_ancestors, level and get_descendants on a stored
\* category returns; get_ancestors returns the chain from a root down to the
\* direct parent, and its length is the level.
C30_WalksReturn ==
  /\ response.body \in {"get_ancestors", "level", "get_descendants"} =>
       response.result.returned
  /\ response.body = "get_ancestors" /\ response.result.returned =>
       LET chain == response.result.value
           c == response.category
       IN /\ Len(chain) = level(c).value
          /\ chain # << >> =>
               /\ categories[chain[1]] = None
               /\ chain[Len(chain)] = categories[c]
               /\ \A i \in 2 .. Len(chain) : categories[chain[i]] = chain[i - 1]

====
